---- MODULE Spec2Model ----
(***************************************************************************)
(* E-vote: the voter view (CandidateList), the admin view (AdminPanel) and *)
(* the hosted relational store they both talk to.  Every handler of the    *)
(* two components is an action; every await is split at the point where    *)
(* the store processes the request, so that requests of different views    *)
(* and of different fetches interleave and their responses may arrive in   *)
(* any order.                                                              *)
(***************************************************************************)
EXTENDS Integers, Sequences, FiniteSets, Bags, TLC

----------------------------------------------------------------------------
(* Bounds of the model *)

\* voter view instances (browser sessions) that are mounted
NumViews == 2
\* candidates the admin may create on top of the seeded ballot
MaxNewCandidates == 1
\* vote rows the store may ever create (serial of the votes table)
MaxVotesEver == 2
\* vote inserts one view instance may have outstanding
MaxInflight == 2
\* calls of one fetch function of the admin view that may be outstanding
MaxFetches == 2
\* vote rows and candidate rows a tally is derived from, for the derivation alone
TallyMaxVotes == 3
TallyMaxCandidates == 3
\* profiles and vote rows a voter list is derived from, for the derivation alone
VotersMaxProfiles == 3
VotersMaxVotes == 2

Views == 1 .. NumViews

null == "null"

\* CandidateList.tsx:23 userId prop: views 1 and 2 are two sessions of the
\* same voter, any further view belongs to a second voter
userId(v) == IF v <= 2 THEN "u1" ELSE "u2"

\* rows of the profiles table, newest registration first
Profiles == << [id |-> "u2", created_at |-> 2], [id |-> "u1", created_at |-> 1] >>

\* names in lexicographic order; NameRank is the position in that order
Names == << "Alice", "Bob", "Carol" >>
NameRank(n) == CHOOSE i \in 1 .. Len(Names) : Names[i] = n

\* the ballot the store holds when the views are mounted
SeedCandidates == { [id |-> "c1", name |-> "Bob", party |-> "Y"] }

\* the identities the store hands out to candidate rows, in order of creation
IdPool == << "c1", "c2", "c3", "c4", "c5" >>

\* what the admin may type into the add-candidate form
FormInputs == { [name |-> "Alice", party |-> "X"] }
EmptyForm == [name |-> "", party |-> ""]
\* what the admin types into the name input and into the party input
FormNames == { f.name : f \in FormInputs } \cup { "" }
FormParties == { f.party : f \in FormInputs } \cup { "" }

\* notification texts of the two components
ToastAlreadyVoted == "You have already voted!"
ToastAlreadyCast == "You have already cast your vote!"
ToastVoteCast == "Vote cast successfully!"
ToastVoteFailed == "Failed to cast vote"
ToastLoadCandidates == "Failed to load candidates"
ToastLoadResults == "Failed to load vote results"
ToastLoadVoters == "Failed to load voters"
ToastAdded == "Candidate added successfully"
ToastAddFailed == "Failed to add candidate"
ToastDeleted == "Candidate deleted successfully"
ToastDeleteFailed == "Failed to delete candidate"

\* error codes of the store
UniqueViolation == "23505"
ForeignKeyViolation == "23503"
Unavailable == "08006"
NoError == "none"

----------------------------------------------------------------------------
(* Sequences *)

Range(s) == { s[i] : i \in DOMAIN s }

\* all enumerations of a finite set, each element once
Enumerations(S) ==
    { s \in [1 .. Cardinality(S) -> S] : \A i, j \in DOMAIN s : s[i] = s[j] => i = j }

\* all sequences over S of length at most n
SeqsUpTo(S, n) == UNION { [1 .. k -> S] : k \in 0 .. n }

RECURSIVE SumSeq(_)
SumSeq(s) == IF s = << >> THEN 0 ELSE Head(s) + SumSeq(Tail(s))

RemoveAt(s, i) == SubSeq(s, 1, i - 1) \o SubSeq(s, i + 1, Len(s))

----------------------------------------------------------------------------
VARIABLES
    candidates,       \* store: rows of the candidates table
    votes,            \* store: rows of the votes table
    candidateSerial,  \* store: candidate rows ever created
    voteLog,          \* store: every vote row ever created, in order of creation
    hasVoted,         \* per view: the hasVoted prop the parent supplies
    parentNotified,   \* per view: onVoteSuccess was called, parent not yet refreshed
    roster,           \* per view: candidates state of CandidateList
    rosterFetch,      \* per view: the fetchCandidates call of the mount effect
    loading,          \* per view: loading state of CandidateList
    votingFor,        \* per view: votingFor state of CandidateList
    voteReqs,         \* per view: vote inserts awaiting their response
    adminCandidates,  \* admin view: candidates state
    adminLoading,     \* admin view: loading state
    voteResults,      \* admin view: voteResults state, the tally
    voters,           \* admin view: voters state
    newCandidate,     \* admin view: the add-candidate form
    candidateFetches, \* admin view: outstanding calls of fetchCandidates
    resultFetches,    \* admin view: outstanding calls of fetchVoteResults
    voterFetches,     \* admin view: outstanding calls of fetchVoters
    adminReqs,        \* admin view: outstanding candidate inserts and deletes
    toast,            \* the notification the last step raised, null if none
    trace,            \* the part of handleVote the last step ran, NoTrace if none
    fetched           \* the fetch of the admin view the last step ended, NoFetch if none

storeVars == << candidates, votes, candidateSerial, voteLog >>
viewVars == << hasVoted, parentNotified, roster, rosterFetch, loading, votingFor, voteReqs >>
adminState == << adminCandidates, adminLoading, voteResults, voters, newCandidate >>
adminCalls == << candidateFetches, resultFetches, voterFetches, adminReqs >>
adminVars == << adminState, adminCalls >>
vars == << storeVars, viewVars, adminVars, toast, trace, fetched >>

NoReq == [op |-> "", voter_id |-> "", candidate_id |-> "", error |-> "", rivalWon |-> FALSE]
NoTrace == [fn |-> "none", view |-> 0, req |-> NoReq]
NoFetch ==
    [fn |-> "none", failed |-> FALSE, votesData |-> << >>, candidatesData |-> << >>,
     profilesData |-> << >>, since |-> { }]

\* what a step reports: its notification, its part of handleVote, the fetch it ended
Output(msg, tr, f) == toast' = msg /\ trace' = tr /\ fetched' = f
Raise(msg) == Output(msg, NoTrace, NoFetch)
Quiet == Raise(null)

----------------------------------------------------------------------------
(* The store: tables candidates, votes and profiles *)

CandidateIds == { c.id : c \in candidates }

\* the candidates that had votes when they were deleted: a vote row leaves the
\* table only with its candidate
DeletedWithVotes == { voteLog[i].candidate_id : i \in DOMAIN voteLog } \ CandidateIds

\* listCandidates(): the rows ordered by name ascending, ties in any order
SelectCandidatesByName ==
    { s \in Enumerations(candidates) :
        \A i, j \in DOMAIN s : i < j => NameRank(s[i].name) <= NameRank(s[j].name) }

\* select id, name, party from candidates: no order is asked for
SelectCandidates == Enumerations(candidates)

\* listVotes(): the rows of votes in the order of their creation
RECURSIVE RowsById(_)
RowsById(rows) ==
    IF rows = { } THEN << >>
    ELSE LET r == CHOOSE x \in rows : \A y \in rows : x.id <= y.id
         IN << r >> \o RowsById(rows \ { r })

SelectVotes == RowsById(votes)

\* listProfiles(): ordered by created_at descending
SelectProfiles == Profiles

VotesOf(voter) == { r \in votes : r.voter_id = voter }

\* a votes table without the unique index on voter_id
VoteWriteErrorNoUnique(op, voter, candidate) ==
    IF candidate \notin CandidateIds THEN ForeignKeyViolation ELSE NoError

\* insertVote(voterId, candidateId): ConflictError when a vote of that voter exists
\* (the unique index is checked when the row is written, the reference to the
\* candidate after it); an upsert resolves the conflict by updating the row
VoteWriteError(op, voter, candidate) ==
    IF op = "insert" /\ VotesOf(voter) # { } THEN UniqueViolation
    ELSE IF candidate \notin CandidateIds THEN ForeignKeyViolation
    ELSE NoError

\* the row a successful insert adds
NewVoteRow(voter, candidate) ==
    [id |-> Len(voteLog) + 1, voter_id |-> voter, candidate_id |-> candidate]

\* the store accepts a write to votes
WriteVote(op, voter, candidate) ==
    IF op = "upsert" /\ VotesOf(voter) # { }
    THEN /\ votes' = (votes \ VotesOf(voter))
                     \cup { [r EXCEPT !.candidate_id = candidate] : r \in VotesOf(voter) }
         /\ UNCHANGED voteLog
    ELSE /\ Len(voteLog) < MaxVotesEver
         /\ votes' = votes \cup { NewVoteRow(voter, candidate) }
         /\ voteLog' = Append(voteLog, [voter_id |-> voter, candidate_id |-> candidate])

\* insertCandidate(fields): a row with a fresh identity
InsertCandidateRow(fields) ==
    /\ candidateSerial < Cardinality(SeedCandidates) + MaxNewCandidates
    /\ candidates' = candidates \cup { [id |-> IdPool[candidateSerial + 1],
                                        name |-> fields.name, party |-> fields.party] }
    /\ candidateSerial' = candidateSerial + 1
    /\ UNCHANGED << votes, voteLog >>

\* deleteCandidate(id): the votes that reference the row go with it
DeleteCandidateRow(id) ==
    /\ candidates' = { c \in candidates : c.id # id }
    /\ votes' = { r \in votes : r.candidate_id # id }
    /\ UNCHANGED << candidateSerial, voteLog >>

----------------------------------------------------------------------------
(* CandidateList: the voter view *)

\* a call of fetchCandidates waits at its await: sent, then got once the store has
\* read the table and the answer is on its way, then done
CandidatesSent == [at |-> "sent", data |-> << >>]
CandidatesGot(data) == [at |-> "got", data |-> data]
CandidatesDone == [at |-> "done", data |-> << >>]

\* the store answers select * from candidates order by name for the voter view
ViewReadCandidates(v) ==
    /\ rosterFetch[v].at = "sent"
    /\ \E data \in SelectCandidatesByName :
         rosterFetch' = [rosterFetch EXCEPT ![v] = CandidatesGot(data)]
    /\ Quiet
    /\ UNCHANGED << storeVars, adminVars, hasVoted, parentNotified, roster, loading,
                    votingFor, voteReqs >>

\* fetchCandidates of the mount effect after its await: setCandidates, setLoading
ViewFetchCandidates(v) ==
    /\ rosterFetch[v].at = "got"
    /\ roster' = [roster EXCEPT ![v] = rosterFetch[v].data]
    /\ loading' = [loading EXCEPT ![v] = FALSE]
    /\ rosterFetch' = [rosterFetch EXCEPT ![v] = CandidatesDone]
    /\ Quiet
    /\ UNCHANGED << storeVars, adminVars, hasVoted, parentNotified, votingFor, voteReqs >>

\* fetchCandidates of the mount effect, the read fails
ViewFetchCandidatesFails(v) ==
    /\ rosterFetch[v].at = "sent"
    /\ rosterFetch' = [rosterFetch EXCEPT ![v] = CandidatesDone]
    /\ loading' = [loading EXCEPT ![v] = FALSE]
    /\ Raise(ToastLoadCandidates)
    /\ UNCHANGED << storeVars, adminVars, hasVoted, parentNotified, roster, votingFor,
                    voteReqs >>

\* a vote button that only looks at the hasVoted prop
VoteDisabledIgnoresSubmission(v) == hasVoted[v]

\* disabled={hasVoted || votingFor !== null}
VoteDisabled(v) == hasVoted[v] \/ votingFor[v] # null

\* the write becomes an upsert
VoteUpsert(v, candidateId) ==
    [op |-> "upsert", voter_id |-> userId(v), candidate_id |-> candidateId,
     error |-> "sent", rivalWon |-> FALSE]

\* supabase.from("votes").insert({ voter_id: userId, candidate_id: candidateId })
VoteInsert(v, candidateId) ==
    [op |-> "insert", voter_id |-> userId(v), candidate_id |-> candidateId,
     error |-> "sent", rivalWon |-> FALSE]

\* handleVote without its precondition check
HandleVoteUnchecked(v, candidateId) ==
    /\ votingFor' = [votingFor EXCEPT ![v] = candidateId]
    /\ voteReqs' = [voteReqs EXCEPT ![v] = Append(@, VoteInsert(v, candidateId))]
    /\ toast' = null
    /\ UNCHANGED << storeVars, adminVars, hasVoted, parentNotified, roster, rosterFetch, loading >>

\* handleVote up to its await
HandleVote(v, candidateId) ==
    IF hasVoted[v]
    THEN /\ toast' = ToastAlreadyVoted
         /\ UNCHANGED << storeVars, adminVars, viewVars >>
    ELSE /\ votingFor' = [votingFor EXCEPT ![v] = candidateId]
         /\ voteReqs' = [voteReqs EXCEPT ![v] = Append(@, VoteInsert(v, candidateId))]
         /\ toast' = null
         /\ UNCHANGED << storeVars, adminVars, hasVoted, parentNotified, roster, rosterFetch, loading >>

Called(v, candidateId) ==
    [fn |-> "handleVote", view |-> v, req |-> [NoReq EXCEPT !.candidate_id = candidateId]]

\* the user presses the vote button of a candidate card; no button is rendered
\* while loading, and none for a candidate that is not in the list
ClickVote(v, candidateId) ==
    /\ ~loading[v]
    /\ \E i \in DOMAIN roster[v] : roster[v][i].id = candidateId
    /\ ~VoteDisabled(v)
    /\ Len(voteReqs[v]) < MaxInflight
    /\ HandleVote(v, candidateId)
    /\ trace' = Called(v, candidateId)
    /\ fetched' = NoFetch

\* handleVote is called although the prop says the voter has voted
CallVoteWhenVoted(v, candidateId) ==
    /\ hasVoted[v]
    /\ HandleVote(v, candidateId)
    /\ trace' = Called(v, candidateId)
    /\ fetched' = NoFetch

\* the store processes a vote insert; the inserts of the same voter that are
\* outstanding at that moment have lost against it
StoreInsertVote(v, i) ==
    /\ voteReqs[v][i].error = "sent"
    /\ LET req == voteReqs[v][i]
           code == VoteWriteError(req.op, req.voter_id, req.candidate_id)
       IN /\ IF code = NoError
             THEN WriteVote(req.op, req.voter_id, req.candidate_id)
             ELSE UNCHANGED << votes, voteLog >>
          /\ voteReqs' =
               [w \in Views |->
                  [j \in DOMAIN voteReqs[w] |->
                     IF w = v /\ j = i THEN [req EXCEPT !.error = code]
                     ELSE IF code = NoError /\ voteReqs[w][j].voter_id = req.voter_id
                          THEN [voteReqs[w][j] EXCEPT !.rivalWon = TRUE]
                          ELSE voteReqs[w][j]]]
    /\ Quiet
    /\ UNCHANGED << candidates, candidateSerial, adminVars, hasVoted, parentNotified,
                    roster, rosterFetch, loading, votingFor >>

\* the vote insert does not get through
StoreInsertVoteFails(v, i) ==
    /\ voteReqs[v][i].error = "sent"
    /\ voteReqs' = [voteReqs EXCEPT ![v][i].error = Unavailable]
    /\ Quiet
    /\ UNCHANGED << storeVars, adminVars, hasVoted, parentNotified, roster, rosterFetch, loading,
                    votingFor >>

\* every error of the insert is reported as a failure
VoteToastAllFailures(error) ==
    IF error # NoError THEN ToastVoteFailed ELSE ToastVoteCast

\* the notification handleVote ends with
VoteToast(error) ==
    IF error # NoError
    THEN IF error = UniqueViolation THEN ToastAlreadyCast ELSE ToastVoteFailed
    ELSE ToastVoteCast

\* votingFor is reset only where no error is thrown
VotingForAfterNoFinally(v, error) ==
    IF error \in { NoError, UniqueViolation } THEN null ELSE votingFor[v]

\* finally { setVotingFor(null) }
VotingForAfter(v, error) == null

\* handleVote after its await
VoteResponse(v, i) ==
    /\ voteReqs[v][i].error # "sent"
    /\ LET error == voteReqs[v][i].error
       IN /\ toast' = VoteToast(error)
          /\ parentNotified' = [parentNotified EXCEPT ![v] = @ \/ error = NoError]
          /\ votingFor' = [votingFor EXCEPT ![v] = VotingForAfter(v, error)]
    /\ voteReqs' = [voteReqs EXCEPT ![v] = RemoveAt(@, i)]
    /\ trace' = [fn |-> "response", view |-> v, req |-> voteReqs[v][i]]
    /\ fetched' = NoFetch
    /\ UNCHANGED << storeVars, adminVars, hasVoted, roster, rosterFetch, loading >>

\* the parent reacts to onVoteSuccess and supplies the flag anew
ParentRefresh(v) ==
    /\ parentNotified[v]
    /\ parentNotified' = [parentNotified EXCEPT ![v] = FALSE]
    /\ hasVoted' = [hasVoted EXCEPT ![v] = VotesOf(userId(v)) # { }]
    /\ Quiet
    /\ UNCHANGED << storeVars, adminVars, roster, rosterFetch, loading, votingFor, voteReqs >>

----------------------------------------------------------------------------
(* AdminPanel: tally and voter list derivations *)

\* votesData.filter((vote) => vote.candidate_id === id).length
CountFor(votesData, id) ==
    Cardinality({ i \in DOMAIN votesData : votesData[i].candidate_id = id })

\* every candidate is credited with all fetched votes
VoteCountsAllVotes(votesData, candidatesData) ==
    [i \in DOMAIN candidatesData |->
        [candidate_id |-> candidatesData[i].id,
         candidate_name |-> candidatesData[i].name,
         candidate_party |-> candidatesData[i].party,
         vote_count |-> Len(votesData)]]

\* candidatesData.map((candidate) => ({ ... }))
VoteCounts(votesData, candidatesData) ==
    [i \in DOMAIN candidatesData |->
        [candidate_id |-> candidatesData[i].id,
         candidate_name |-> candidatesData[i].name,
         candidate_party |-> candidatesData[i].party,
         vote_count |-> CountFor(votesData, candidatesData[i].id)]]

\* x is put behind every entry it does not precede under the comparator
\* (a, b) => b.vote_count - a.vote_count, so equal entries keep their order
InsertByCount(sorted, x) ==
    LET k == Cardinality({ i \in DOMAIN sorted : sorted[i].vote_count >= x.vote_count })
    IN SubSeq(sorted, 1, k) \o << x >> \o SubSeq(sorted, k + 1, Len(sorted))

RECURSIVE SortInto(_, _)
SortInto(sorted, rest) ==
    IF rest = << >> THEN sorted
    ELSE SortInto(InsertByCount(sorted, Head(rest)), Tail(rest))

\* the entries are left in the order of the candidates
UnsortedCounts(voteCounts) == voteCounts

\* voteCounts.sort((a, b) => b.vote_count - a.vote_count)
SortByCountDesc(voteCounts) == SortInto(<< >>, voteCounts)

\* the tally fetchVoteResults stores
Tally(votesData, candidatesData) == SortByCountDesc(VoteCounts(votesData, candidatesData))

\* voteResults.reduce((sum, result) => sum + result.vote_count, 0)
TotalVotesOf(results) == SumSeq([i \in DOMAIN results |-> results[i].vote_count])
totalVotes == TotalVotesOf(voteResults)

\* profilesData.map((profile) => ({ ...profile, has_voted: votesData.some(...) }))
\* every in place of some
VotersWithStatusEveryVote(profilesData, votesData) ==
    [i \in DOMAIN profilesData |->
        [id |-> profilesData[i].id,
         created_at |-> profilesData[i].created_at,
         has_voted |-> \A j \in DOMAIN votesData :
                          votesData[j].voter_id = profilesData[i].id]]

VotersWithStatus(profilesData, votesData) ==
    [i \in DOMAIN profilesData |->
        [id |-> profilesData[i].id,
         created_at |-> profilesData[i].created_at,
         has_voted |-> \E j \in DOMAIN votesData :
                          votesData[j].voter_id = profilesData[i].id]]

\* the column each fetch selects from votes
CandidateIdColumn(rows) == [i \in DOMAIN rows |-> [candidate_id |-> rows[i].candidate_id]]
VoterIdColumn(rows) == [i \in DOMAIN rows |-> [voter_id |-> rows[i].voter_id]]

----------------------------------------------------------------------------
(* AdminPanel: fetchCandidates *)

One(x) == SetToBag({ x })
Outstanding(calls) == BagToSet(calls)

\* the store answers select * from candidates order by name for the admin view
FetchCandidatesRead(t) ==
    /\ t.at = "sent"
    /\ \E data \in SelectCandidatesByName :
         candidateFetches' = (candidateFetches (-) One(t)) (+) One(CandidatesGot(data))
    /\ Quiet
    /\ UNCHANGED << storeVars, viewVars, adminState, resultFetches, voterFetches,
                    adminReqs >>

\* fetchCandidates after its await: setCandidates(data), setLoading(false)
AdminFetchCandidates(t) ==
    /\ t.at = "got"
    /\ adminCandidates' = t.data
    /\ adminLoading' = FALSE
    /\ candidateFetches' = candidateFetches (-) One(t)
    /\ Output(null, NoTrace, [NoFetch EXCEPT !.fn = "fetchCandidates"])
    /\ UNCHANGED << storeVars, viewVars, voteResults, voters, newCandidate, resultFetches,
                    voterFetches, adminReqs >>

\* a failed read empties the list
ListAfterFailureCleared(list) == << >>

\* catch of fetchCandidates: candidates is not touched
CandidatesAfterFailure(list) == list

\* fetchCandidates, the read fails
AdminFetchCandidatesFails(t) ==
    /\ t.at = "sent"
    /\ adminCandidates' = CandidatesAfterFailure(adminCandidates)
    /\ adminLoading' = FALSE
    /\ candidateFetches' = candidateFetches (-) One(t)
    /\ Output(ToastLoadCandidates, NoTrace,
              [NoFetch EXCEPT !.fn = "fetchCandidates", !.failed = TRUE])
    /\ UNCHANGED << storeVars, viewVars, voteResults, voters, newCandidate, resultFetches,
                    voterFetches, adminReqs >>

----------------------------------------------------------------------------
(* AdminPanel: fetchVoteResults *)

\* a call of fetchVoteResults; since records the candidates deleted before it
ResultsCalled(deleted) ==
    [at |-> "votes", votesData |-> << >>, candidatesData |-> << >>, since |-> deleted]
ResultsSent == ResultsCalled({ })

\* the store answers select candidate_id from votes
FetchVoteResultsReadVotes(t) ==
    /\ t.at = "votes"
    /\ resultFetches' = (resultFetches (-) One(t))
                        (+) One([t EXCEPT !.at = "gotVotes",
                                          !.votesData = CandidateIdColumn(SelectVotes)])
    /\ Quiet
    /\ UNCHANGED << storeVars, viewVars, adminState, candidateFetches, voterFetches,
                    adminReqs >>

\* fetchVoteResults after its first await: the select from candidates is sent
FetchVoteResultsAfterVotes(t) ==
    /\ t.at = "gotVotes"
    /\ resultFetches' = (resultFetches (-) One(t)) (+) One([t EXCEPT !.at = "candidates"])
    /\ Quiet
    /\ UNCHANGED << storeVars, viewVars, adminState, candidateFetches, voterFetches,
                    adminReqs >>

\* the store answers select id, name, party from candidates
FetchVoteResultsReadCandidates(t) ==
    /\ t.at = "candidates"
    /\ \E data \in SelectCandidates :
         resultFetches' = (resultFetches (-) One(t))
                          (+) One([t EXCEPT !.at = "got", !.candidatesData = data])
    /\ Quiet
    /\ UNCHANGED << storeVars, viewVars, adminState, candidateFetches, voterFetches,
                    adminReqs >>

\* a failed read empties the tally
ResultsAfterFailureCleared(results) == << >>

\* catch of fetchVoteResults: voteResults is not touched
ResultsAfterFailure(results) == results

\* fetchVoteResults, one of its two reads fails
FetchVoteResultsFails(t) ==
    /\ t.at \in { "votes", "candidates" }
    /\ voteResults' = ResultsAfterFailure(voteResults)
    /\ resultFetches' = resultFetches (-) One(t)
    /\ Output(ToastLoadResults, NoTrace,
              [NoFetch EXCEPT !.fn = "fetchVoteResults", !.failed = TRUE])
    /\ UNCHANGED << storeVars, viewVars, adminCandidates, adminLoading, voters,
                    newCandidate, candidateFetches, voterFetches, adminReqs >>

\* fetchVoteResults after its second await: setVoteResults(voteCounts)
FetchVoteResultsDone(t) ==
    /\ t.at = "got"
    /\ voteResults' = Tally(t.votesData, t.candidatesData)
    /\ resultFetches' = resultFetches (-) One(t)
    /\ Output(null, NoTrace,
              [NoFetch EXCEPT !.fn = "fetchVoteResults", !.votesData = t.votesData,
                              !.candidatesData = t.candidatesData, !.since = t.since])
    /\ UNCHANGED << storeVars, viewVars, adminCandidates, adminLoading, voters,
                    newCandidate, candidateFetches, voterFetches, adminReqs >>

----------------------------------------------------------------------------
(* AdminPanel: fetchVoters *)

VotersSent == [at |-> "profiles", profilesData |-> << >>, votesData |-> << >>]

\* the store answers select id, email, full_name, created_at from profiles
FetchVotersReadProfiles(t) ==
    /\ t.at = "profiles"
    /\ voterFetches' = (voterFetches (-) One(t))
                       (+) One([t EXCEPT !.at = "gotProfiles",
                                         !.profilesData = SelectProfiles])
    /\ Quiet
    /\ UNCHANGED << storeVars, viewVars, adminState, candidateFetches, resultFetches,
                    adminReqs >>

\* fetchVoters after its first await: the select from votes is sent
FetchVotersAfterProfiles(t) ==
    /\ t.at = "gotProfiles"
    /\ voterFetches' = (voterFetches (-) One(t)) (+) One([t EXCEPT !.at = "votes"])
    /\ Quiet
    /\ UNCHANGED << storeVars, viewVars, adminState, candidateFetches, resultFetches,
                    adminReqs >>

\* the store answers select voter_id from votes
FetchVotersReadVotes(t) ==
    /\ t.at = "votes"
    /\ voterFetches' = (voterFetches (-) One(t))
                       (+) One([t EXCEPT !.at = "got",
                                         !.votesData = VoterIdColumn(SelectVotes)])
    /\ Quiet
    /\ UNCHANGED << storeVars, viewVars, adminState, candidateFetches, resultFetches,
                    adminReqs >>

\* catch of fetchVoters: voters is not touched
VotersAfterFailure(list) == list

\* fetchVoters, one of its two reads fails
FetchVotersFails(t) ==
    /\ t.at \in { "profiles", "votes" }
    /\ voters' = VotersAfterFailure(voters)
    /\ voterFetches' = voterFetches (-) One(t)
    /\ Output(ToastLoadVoters, NoTrace,
              [NoFetch EXCEPT !.fn = "fetchVoters", !.failed = TRUE])
    /\ UNCHANGED << storeVars, viewVars, adminCandidates, adminLoading, voteResults,
                    newCandidate, candidateFetches, resultFetches, adminReqs >>

\* fetchVoters after its second await: setVoters(votersWithStatus)
FetchVotersDone(t) ==
    /\ t.at = "got"
    /\ voters' = VotersWithStatus(t.profilesData, t.votesData)
    /\ Output(null, NoTrace,
              [NoFetch EXCEPT !.fn = "fetchVoters", !.votesData = t.votesData,
                              !.profilesData = t.profilesData])
    /\ voterFetches' = voterFetches (-) One(t)
    /\ UNCHANGED << storeVars, viewVars, adminCandidates, adminLoading, voteResults,
                    newCandidate, candidateFetches, resultFetches, adminReqs >>

----------------------------------------------------------------------------
(* AdminPanel: handleAddCandidate and handleDeleteCandidate *)

\* the fetches a successful add or delete starts must fit
RoomForRefresh ==
    /\ BagCardinality(candidateFetches) + BagCardinality(adminReqs) < MaxFetches
    /\ BagCardinality(resultFetches) + BagCardinality(adminReqs) < MaxFetches

\* supabase.from("candidates").insert({ name, party, ... })
CandidateInsert(fields) ==
    [op |-> "insert", name |-> fields.name, party |-> fields.party, id |-> null,
     error |-> "sent"]

\* supabase.from("candidates").delete().eq("id", id)
CandidateDelete(id) ==
    [op |-> "delete", name |-> "", party |-> "", id |-> id, error |-> "sent"]

\* onChange of the name input: setNewCandidate({ ...newCandidate, name })
TypeName(name) ==
    /\ newCandidate' = [newCandidate EXCEPT !.name = name]
    /\ Quiet
    /\ UNCHANGED << storeVars, viewVars, adminCandidates, adminLoading, voteResults, voters,
                    adminCalls >>

\* onChange of the party input: setNewCandidate({ ...newCandidate, party })
TypeParty(party) ==
    /\ newCandidate' = [newCandidate EXCEPT !.party = party]
    /\ Quiet
    /\ UNCHANGED << storeVars, viewVars, adminCandidates, adminLoading, voteResults, voters,
                    adminCalls >>

\* the admin submits the form: handleAddCandidate up to its await, with the
\* fields as they are typed; name and party are required inputs
HandleAddCandidate ==
    /\ newCandidate.name # "" /\ newCandidate.party # ""
    /\ RoomForRefresh
    /\ adminReqs' = adminReqs (+) One(CandidateInsert(newCandidate))
    /\ Quiet
    /\ UNCHANGED << storeVars, viewVars, adminState, candidateFetches, resultFetches,
                    voterFetches >>

\* handleDeleteCandidate up to its await, from the dialog of a listed candidate
HandleDeleteCandidate(id) ==
    /\ \E i \in DOMAIN adminCandidates : adminCandidates[i].id = id
    /\ RoomForRefresh
    /\ adminReqs' = adminReqs (+) One(CandidateDelete(id))
    /\ Quiet
    /\ UNCHANGED << storeVars, viewVars, adminState, candidateFetches, resultFetches,
                    voterFetches >>

\* the store processes an insert or a delete of the admin view
StoreAdminRequest(r) ==
    /\ r.error = "sent"
    /\ IF r.op = "insert" THEN InsertCandidateRow(r) ELSE DeleteCandidateRow(r.id)
    /\ adminReqs' = (adminReqs (-) One(r)) (+) One([r EXCEPT !.error = NoError])
    /\ Quiet
    /\ UNCHANGED << viewVars, adminState, candidateFetches, resultFetches, voterFetches >>

\* the insert or delete does not get through
StoreAdminRequestFails(r) ==
    /\ r.error = "sent"
    /\ adminReqs' = (adminReqs (-) One(r)) (+) One([r EXCEPT !.error = Unavailable])
    /\ Quiet
    /\ UNCHANGED << storeVars, viewVars, adminState, candidateFetches, resultFetches,
                    voterFetches >>

\* fetchCandidates(); fetchVoteResults(); neither is awaited
StartRefresh ==
    /\ candidateFetches' = candidateFetches (+) One(CandidatesSent)
    /\ resultFetches' = resultFetches (+) One(ResultsCalled(DeletedWithVotes))

\* handleAddCandidate after its await
AddResponse(r) ==
    /\ r.op = "insert" /\ r.error # "sent"
    /\ adminReqs' = adminReqs (-) One(r)
    /\ IF r.error = NoError
       THEN /\ Raise(ToastAdded)
            /\ newCandidate' = EmptyForm
            /\ StartRefresh
       ELSE /\ Raise(ToastAddFailed)
            /\ UNCHANGED << newCandidate, candidateFetches, resultFetches >>
    /\ UNCHANGED << storeVars, viewVars, adminCandidates, adminLoading, voteResults, voters,
                    voterFetches >>

\* handleDeleteCandidate after its await
DeleteResponse(r) ==
    /\ r.op = "delete" /\ r.error # "sent"
    /\ adminReqs' = adminReqs (-) One(r)
    /\ IF r.error = NoError
       THEN /\ Raise(ToastDeleted)
            /\ StartRefresh
       ELSE /\ Raise(ToastDeleteFailed)
            /\ UNCHANGED << candidateFetches, resultFetches >>
    /\ UNCHANGED << storeVars, viewVars, adminState, voterFetches >>

----------------------------------------------------------------------------
(* Sessions that are not modelled act on the store alone *)

\* among the voter views: an admin session adds a candidate
AdminSessionAdds(fields) ==
    /\ InsertCandidateRow(fields)
    /\ Quiet
    /\ UNCHANGED << viewVars, adminVars >>

\* among the voter views: an admin session deletes a candidate
AdminSessionDeletes(id) ==
    /\ id \in CandidateIds
    /\ DeleteCandidateRow(id)
    /\ Quiet
    /\ UNCHANGED << viewVars, adminVars >>

\* beside the admin view: the store accepts the insert of a voter session
VoterSessionVotes(voter, candidate) ==
    /\ VoteWriteError("insert", voter, candidate) = NoError
    /\ WriteVote("insert", voter, candidate)
    /\ Quiet
    /\ UNCHANGED << candidates, candidateSerial, viewVars, adminVars >>

----------------------------------------------------------------------------
(* Specifications *)

InitStore ==
    /\ candidates = SeedCandidates
    /\ votes = { }
    /\ candidateSerial = Cardinality(SeedCandidates)
    /\ voteLog = << >>

\* CandidateList is mounted: useEffect has called fetchCandidates
InitViews ==
    /\ hasVoted = [v \in Views |-> FALSE]
    /\ parentNotified = [v \in Views |-> FALSE]
    /\ roster = [v \in Views |-> << >>]
    /\ rosterFetch = [v \in Views |-> CandidatesSent]
    /\ loading = [v \in Views |-> TRUE]
    /\ votingFor = [v \in Views |-> null]
    /\ voteReqs = [v \in Views |-> << >>]

InitAdminState ==
    /\ adminCandidates = << >>
    /\ adminLoading = TRUE
    /\ voteResults = << >>
    /\ voters = << >>
    /\ newCandidate = EmptyForm
    /\ adminReqs = EmptyBag

InitOutput == toast = null /\ trace = NoTrace /\ fetched = NoFetch

\* the voter views are open, the admin view is not
Init ==
    /\ InitStore /\ InitViews /\ InitAdminState /\ InitOutput
    /\ candidateFetches = EmptyBag
    /\ resultFetches = EmptyBag
    /\ voterFetches = EmptyBag

\* the admin view is open: useEffect has called the three fetches
InitAdmin ==
    /\ InitStore /\ InitViews /\ InitAdminState /\ InitOutput
    /\ candidateFetches = One(CandidatesSent)
    /\ resultFetches = One(ResultsSent)
    /\ voterFetches = One(VotersSent)

ViewNext ==
    \E v \in Views :
        \/ ViewReadCandidates(v)
        \/ ViewFetchCandidates(v)
        \/ ViewFetchCandidatesFails(v)
        \/ \E c \in Range(IdPool) : ClickVote(v, c)
        \/ \E i \in DOMAIN voteReqs[v] : StoreInsertVote(v, i)
        \/ \E i \in DOMAIN voteReqs[v] : StoreInsertVoteFails(v, i)
        \/ \E i \in DOMAIN voteReqs[v] : VoteResponse(v, i)
        \/ ParentRefresh(v)

Next ==
    \/ ViewNext
    \/ \E fields \in FormInputs : AdminSessionAdds(fields)
    \/ \E id \in Range(IdPool) : AdminSessionDeletes(id)

Spec == Init /\ [][Next]_vars

\* handleVote is also called past the disabled button
NextCall ==
    \/ Next
    \/ \E v \in Views, c \in Range(IdPool) : CallVoteWhenVoted(v, c)

SpecCall == Init /\ [][NextCall]_vars

\* every vote insert is answered and every answer is handled
FairSpec ==
    /\ Spec
    /\ \A v \in Views :
         /\ WF_vars(\E i \in DOMAIN voteReqs[v] :
                      StoreInsertVote(v, i) \/ StoreInsertVoteFails(v, i))
         /\ WF_vars(\E i \in DOMAIN voteReqs[v] : VoteResponse(v, i))

\* the fetchVoters of the mount effect is answered
VotersAnswered ==
    \E t \in Outstanding(voterFetches) :
        \/ FetchVotersReadProfiles(t)
        \/ FetchVotersAfterProfiles(t)
        \/ FetchVotersReadVotes(t)
        \/ FetchVotersDone(t)

\* the admin works on the candidates, and the requests for it are answered
CandidatesAnswered ==
    \/ \E t \in Outstanding(candidateFetches) :
         \/ FetchCandidatesRead(t)
         \/ AdminFetchCandidates(t)
    \/ \E t \in Outstanding(resultFetches) :
         \/ FetchVoteResultsReadVotes(t)
         \/ FetchVoteResultsAfterVotes(t)
         \/ FetchVoteResultsReadCandidates(t)
         \/ FetchVoteResultsDone(t)
    \/ \E name \in FormNames : TypeName(name)
    \/ \E party \in FormParties : TypeParty(party)
    \/ HandleAddCandidate
    \/ \E id \in Range(IdPool) : HandleDeleteCandidate(id)
    \/ \E r \in Outstanding(adminReqs) :
         \/ StoreAdminRequest(r)
         \/ AddResponse(r)
         \/ DeleteResponse(r)

\* the requests of the admin view are answered
AdminAnswered == CandidatesAnswered \/ VotersAnswered

\* a request of the admin view fails
AdminFailed ==
    \/ \E t \in Outstanding(candidateFetches) : AdminFetchCandidatesFails(t)
    \/ \E t \in Outstanding(resultFetches) : FetchVoteResultsFails(t)
    \/ \E t \in Outstanding(voterFetches) : FetchVotersFails(t)
    \/ \E r \in Outstanding(adminReqs) : StoreAdminRequestFails(r)

VotersVote ==
    \E p \in Range(Profiles), c \in Range(IdPool) : VoterSessionVotes(p.id, c)

\* the admin view from its mount on, over a store whose answers may fail, while
\* no vote is cast
NextAdmin == AdminAnswered \/ AdminFailed

SpecAdmin == InitAdmin /\ [][NextAdmin]_vars

\* the admin view once the candidates and the voters of its mount effect are
\* loaded: the fetchVoteResults of the mount effect is outstanding
InitLoaded ==
    /\ InitStore /\ InitViews /\ InitOutput
    /\ adminCandidates \in SelectCandidatesByName
    /\ adminLoading = FALSE
    /\ voteResults = << >>
    /\ voters = VotersWithStatus(SelectProfiles, << >>)
    /\ newCandidate = EmptyForm
    /\ adminReqs = EmptyBag
    /\ candidateFetches = EmptyBag
    /\ resultFetches = One(ResultsSent)
    /\ voterFetches = EmptyBag

\* the tally of the admin view while voters vote, over a store that answers
\* every request
NextResults == CandidatesAnswered \/ VotersVote

SpecResults == InitLoaded /\ [][NextResults]_vars

\* the tally derivation alone: fetchVoteResults has fetched any votes and any
\* candidates and goes on after its second await
DerivableCandidates ==
    { [id |-> IdPool[k], name |-> Names[((k - 1) % Len(Names)) + 1], party |-> "X"] :
        k \in 1 .. TallyMaxCandidates }

DerivableVotes ==
    SeqsUpTo({ [candidate_id |-> c.id] : c \in DerivableCandidates }, TallyMaxVotes)

InitDerive ==
    /\ InitStore /\ InitViews /\ InitAdminState /\ InitOutput
    /\ candidateFetches = EmptyBag
    /\ voterFetches = EmptyBag
    /\ \E fetchedCandidates \in SUBSET DerivableCandidates :
         \E candidatesData \in Enumerations(fetchedCandidates), votesData \in DerivableVotes :
            resultFetches = One([at |-> "got", votesData |-> votesData,
                                 candidatesData |-> candidatesData, since |-> { }])

NextDerive == \E t \in Outstanding(resultFetches) : FetchVoteResultsDone(t)

SpecDerive == InitDerive /\ [][NextDerive]_vars

\* the participation derivation alone: fetchVoters has fetched any profiles, the
\* votes table holds the votes of any voters, among them voters whose profile
\* was not fetched, and fetchVoters reads the votes and goes on
VoterPool == << "u1", "u2", "u3", "u4", "u5" >>

DerivableProfiles ==
    { [id |-> VoterPool[k], created_at |-> k] : k \in 1 .. VotersMaxProfiles }

\* the voters who have voted, in the order of their votes
DerivableVoters ==
    UNION { Enumerations(S) :
              S \in { T \in SUBSET { p.id : p \in DerivableProfiles } :
                         Cardinality(T) <= VotersMaxVotes } }

InitVoters ==
    /\ InitViews /\ InitAdminState /\ InitOutput
    /\ candidates = SeedCandidates
    /\ candidateSerial = Cardinality(SeedCandidates)
    /\ \E voted \in DerivableVoters, c \in SeedCandidates :
          /\ voteLog = [i \in DOMAIN voted |-> [voter_id |-> voted[i], candidate_id |-> c.id]]
          /\ votes = { [id |-> i, voter_id |-> voted[i], candidate_id |-> c.id] :
                         i \in DOMAIN voted }
    /\ candidateFetches = EmptyBag
    /\ resultFetches = EmptyBag
    /\ \E fetchedProfiles \in SUBSET DerivableProfiles :
          \E profilesData \in Enumerations(fetchedProfiles) :
             voterFetches = One([VotersSent EXCEPT !.at = "votes",
                                                  !.profilesData = profilesData])

NextVoters ==
    \E t \in Outstanding(voterFetches) : FetchVotersReadVotes(t) \/ FetchVotersDone(t)

SpecVoters == InitVoters /\ [][NextVoters]_vars

----------------------------------------------------------------------------
(* Claims *)

AlreadyVotedToasts == { ToastAlreadyVoted, ToastAlreadyCast }

\* the last step was handleVote going on after its await, with request trace.req
Responded == trace.fn = "response"

\* the request lost against a concurrent submission of the same voter: that
\* one's insert succeeded while this one was outstanding, and this one's did not
Lost(req) == req.rivalWon /\ req.error # NoError

\* C1: a call of handleVote while hasVoted is true issues no insert, raises the
\* already-voted notification, leaves the vote rows unchanged and does not touch
\* votingFor, so that a view that is idle stays idle
C1_VotedCallRejected ==
    [][\A v \in Views :
         (hasVoted[v] /\ trace'.fn = "handleVote" /\ trace'.view = v)
            => /\ votes' = votes
               /\ voteReqs' = voteReqs
               /\ toast' = ToastAlreadyVoted
               /\ votingFor' = votingFor
               /\ votingFor[v] = null => votingFor'[v] = null]_vars

C1_Witness ==
    /\ trace.fn = "handleVote"
    /\ hasVoted[trace.view]
    /\ votingFor[trace.view] = null
    /\ toast = ToastAlreadyVoted

\* C2 as stated: of two concurrent submissions of one voter of which the store
\* lets one succeed, the loser ends with the already-voted notification, never
\* with the generic failure, and the winner ends with the success notification
C2_LoserAlwaysAlreadyVoted ==
    Responded =>
        /\ Lost(trace.req) => toast \in AlreadyVotedToasts
        /\ trace.req.error = NoError => toast = ToastVoteCast

\* C2 as amended: the loser ends with the already-voted notification when its
\* insert was rejected for the uniqueness violation, with the generic failure
\* when it failed for another reason; the winner ends with the success notification
C2_ConflictIsAlreadyVoted ==
    Responded =>
        /\ (Lost(trace.req) /\ trace.req.error = UniqueViolation)
              => toast \in AlreadyVotedToasts
        /\ (Lost(trace.req) /\ trace.req.error # UniqueViolation)
              => toast = ToastVoteFailed
        /\ trace.req.error = NoError => toast = ToastVoteCast

C2_Witness ==
    /\ Responded
    /\ Lost(trace.req)
    /\ trace.req.error = UniqueViolation
    /\ toast = ToastAlreadyCast

\* C3: the votes table never holds two rows of one voter
C3_OneVotePerVoter ==
    \A r1, r2 \in votes : r1.voter_id = r2.voter_id => r1 = r2

C3_Witness ==
    /\ votes # { }
    /\ \E v \in Views : \E i \in DOMAIN voteReqs[v] :
         voteReqs[v][i].error = UniqueViolation

\* C4: a view that is submitting returns to idle
C4_ReturnsToIdle ==
    \A v \in Views : (votingFor[v] # null) ~> (votingFor[v] = null)

C4_Witness ==
    /\ Responded
    /\ trace.req.error \notin { NoError, UniqueViolation }
    /\ votingFor[trace.view] = null

\* C5: a view has at most one vote insert outstanding, it is submitting while the
\* insert is outstanding, and while it is submitting no vote button can be pressed
C5_OneSubmissionPerView ==
    \A v \in Views :
        /\ Len(voteReqs[v]) <= 1
        /\ voteReqs[v] # << >> => votingFor[v] = voteReqs[v][1].candidate_id
        /\ votingFor[v] # null => \A c \in Range(IdPool) : ~ENABLED ClickVote(v, c)

C5_Witness ==
    \E v \in Views :
        /\ Len(voteReqs[v]) = 1
        /\ ~hasVoted[v]
        /\ \E i \in DOMAIN roster[v] : roster[v][i].id # votingFor[v]

\* C6 as stated: a vote row is created for a voter only once, and a vote row
\* leaves the table only together with the candidate it references
C6_CreatedOncePerVoter ==
    [][/\ \A r \in votes' \ votes :
             \A i \in DOMAIN voteLog : voteLog[i].voter_id # r.voter_id
       /\ \A r \in votes \ votes' :
             r.candidate_id \in CandidateIds /\ r.candidate_id \notin CandidateIds']_vars

\* C6 as amended: a vote row is created only for a voter who has no row at that
\* moment, it is never changed, and it leaves the table only together with the
\* candidate it references
C6_CreatedWhenNoneExists ==
    [][/\ \A r \in votes' \ votes :
             /\ VotesOf(r.voter_id) = { }
             /\ \A q \in votes : q.id # r.id
       /\ \A r \in votes \ votes' :
             r.candidate_id \in CandidateIds /\ r.candidate_id \notin CandidateIds']_vars

C6_Witness ==
    /\ Len(voteLog) = 2
    /\ voteLog[1].voter_id = voteLog[2].voter_id
    /\ votes # { }

\* C7: once a candidate that had votes is deleted, no vote row references it, the
\* tally of a refresh called after the deletion has no entry for it, and neither
\* has the tally shown when no fetch and no request of the admin view is outstanding
C7_DeletedCandidateLeavesTally ==
    /\ \A r \in votes : r.candidate_id \notin DeletedWithVotes
    /\ (fetched.fn = "fetchVoteResults" /\ ~fetched.failed)
          => \A i \in DOMAIN voteResults : voteResults[i].candidate_id \notin fetched.since
    /\ (resultFetches = EmptyBag /\ adminReqs = EmptyBag)
          => \A i \in DOMAIN voteResults :
                voteResults[i].candidate_id \notin DeletedWithVotes

\* the last step stored the tally of a fetchVoteResults
TallyStored == fetched.fn = "fetchVoteResults" /\ ~fetched.failed

\* C8: the tally has one entry per fetched candidate, its count is the number of
\* fetched votes that reference the candidate, and the counts descend
C8_TallyPerCandidate ==
    TallyStored =>
        /\ Len(voteResults) = Len(fetched.candidatesData)
        /\ \A i, j \in DOMAIN voteResults :
              voteResults[i].candidate_id = voteResults[j].candidate_id => i = j
        /\ \A i \in DOMAIN fetched.candidatesData :
              \E j \in DOMAIN voteResults :
                 /\ voteResults[j].candidate_id = fetched.candidatesData[i].id
                 /\ voteResults[j].candidate_name = fetched.candidatesData[i].name
                 /\ voteResults[j].candidate_party = fetched.candidatesData[i].party
                 /\ voteResults[j].vote_count =
                      Cardinality({ k \in DOMAIN fetched.votesData :
                          fetched.votesData[k].candidate_id = fetched.candidatesData[i].id })
        /\ \A i, j \in DOMAIN voteResults :
              i < j => voteResults[i].vote_count >= voteResults[j].vote_count

C8_Witness ==
    /\ TallyStored
    /\ Len(voteResults) >= 2
    /\ voteResults[1].candidate_id # fetched.candidatesData[1].id
    /\ voteResults[1].vote_count > voteResults[2].vote_count

\* the fetched votes whose candidate is among the fetched candidates
CountedVotes ==
    { k \in DOMAIN fetched.votesData :
        \E i \in DOMAIN fetched.candidatesData :
           fetched.candidatesData[i].id = fetched.votesData[k].candidate_id }

\* C9 as stated: the counts of a tally derived from votes and candidates that are
\* not empty sum to totalVotes, the number of vote rows it was derived from
C9_CountsSumToFetchedVotes ==
    (TallyStored /\ fetched.votesData # << >> /\ fetched.candidatesData # << >>)
        => totalVotes = Len(fetched.votesData)

\* C9 as amended: the counts sum to totalVotes, the number of fetched vote rows
\* whose candidate is among the fetched candidates; that is every fetched vote row
\* unless a candidate with fetched votes was deleted between the two fetches
C9_CountsSumToCountedVotes ==
    (TallyStored /\ fetched.votesData # << >> /\ fetched.candidatesData # << >>)
        => /\ totalVotes = Cardinality(CountedVotes)
           /\ (\A k \in DOMAIN fetched.votesData :
                  fetched.votesData[k].candidate_id \in CandidateIds \cup
                     { fetched.candidatesData[i].id : i \in DOMAIN fetched.candidatesData })
                 => totalVotes = Len(fetched.votesData)

C9_Witness ==
    /\ TallyStored
    /\ fetched.candidatesData # << >>
    /\ 0 < totalVotes
    /\ totalVotes < Len(fetched.votesData)

FailureToast(fn) ==
    IF fn = "fetchCandidates" THEN ToastLoadCandidates
    ELSE IF fn = "fetchVoteResults" THEN ToastLoadResults
    ELSE ToastLoadVoters

\* the state each fetch function of the admin view fills
Collection(fn) ==
    IF fn = "fetchCandidates" THEN adminCandidates
    ELSE IF fn = "fetchVoteResults" THEN voteResults
    ELSE voters

\* C10 as stated: a failed read is notified and its collection is empty
C10_FailedCollectionEmpty ==
    fetched.failed => toast = FailureToast(fetched.fn) /\ Collection(fetched.fn) = << >>

\* C10 as amended: a failed read is notified and changes no collection: the
\* others keep what they have, and the failed one is empty if nothing was loaded
\* into it before, as is always so for the voters, and else keeps what a fetch
\* before had loaded
C10_FailureKeepsCollections ==
    [][fetched'.failed =>
          /\ toast' = FailureToast(fetched'.fn)
          /\ adminCandidates' = adminCandidates
          /\ voteResults' = voteResults
          /\ voters' = voters
          /\ fetched'.fn = "fetchVoters" => voters' = << >>]_vars

C10_Witness ==
    /\ fetched.failed
    /\ fetched.fn = "fetchVoteResults"
    /\ toast = ToastLoadResults
    /\ voteResults # << >>

\* the last step stored the voter list of a fetchVoters
VotersStored == fetched.fn = "fetchVoters" /\ ~fetched.failed

\* C11: the voter list has one entry per fetched profile, in the order the
\* profiles were fetched, and an entry has has_voted exactly if a fetched vote
\* has the profile's id as its voter_id
C11_VotersLabelled ==
    VotersStored =>
        /\ Len(voters) = Len(fetched.profilesData)
        /\ \A i \in DOMAIN voters :
              /\ voters[i].id = fetched.profilesData[i].id
              /\ voters[i].created_at = fetched.profilesData[i].created_at
              /\ voters[i].has_voted \in BOOLEAN
              /\ voters[i].has_voted <=>
                    \E j \in DOMAIN fetched.votesData :
                       fetched.votesData[j].voter_id = fetched.profilesData[i].id

\* a voter list with a voter who has voted after one who has not, derived from
\* votes of which one is of a voter whose profile was not fetched
C11_Witness ==
    /\ VotersStored
    /\ \E i, k \in DOMAIN voters : i < k /\ ~voters[i].has_voted /\ voters[k].has_voted
    /\ \E j \in DOMAIN fetched.votesData :
          \A i \in DOMAIN voters : voters[i].id # fetched.votesData[j].voter_id

====
